---- MODULE Spec2Model ----
(***************************************************************************)
(* Model of the combine-annotations-od filter                              *)
(* (src/src/idc/imgvis/filter/_combine_annotations.py) and of the          *)
(* to-annotation-overlay-od writer                                         *)
(* (src/src/idc/imgvis/writer/_annotation_overlay.py).                     *)
(*                                                                         *)
(* Geometry: coordinates are integers and a polygon is the set of unit     *)
(* cells <<i, j>> (the square [i,i+1] x [j,j+1]) it covers, so areas,      *)
(* intersections and unions are exact.  An IoU is the exact fraction       *)
(* [num, den].  Python's None is an option record with none = TRUE.        *)
(* Every record carries an annotation set (get_absolute() is not None),    *)
(* and an object is known by its value and its identity (id), so that a    *)
(* reference shared with a forwarded record can be told from a copy.       *)
(*                                                                         *)
(* Spec is one stream on a filter constructed with valid arguments.        *)
(* SpecConfig starts from the outcomes of constructor calls and adds       *)
(* _apply_args; SpecReuse adds a second initialize() after finalize().     *)
(* SpecPolygons feeds frames whose objects have polygons, SpecBounds       *)
(* derives boxes from polygon bounds that need not be integers, SpecRuns   *)
(* records the calls of a run, and SpecWriter is one stream of the writer. *)
(***************************************************************************)
EXTENDS Integers, Sequences, FiniteSets, TLC

\* ------------------------------------------------------------------ bounds
MaxFrames == 3
MaxBatch == 2
MaxStreams == 2

\* --------------------------------------------------------------- constants
STREAM_INDEX == "stream_index"
UNION_ == "union"
INTERSECT == "intersect"
COMBINATIONS == {UNION_, INTERSECT}
LABEL == "type"

NoneInt == [none |-> TRUE, val |-> 0]
SomeInt(v) == [none |-> FALSE, val |-> v]
NoneStr == [none |-> TRUE, val |-> ""]
SomeStr(s) == [none |-> FALSE, val |-> s]
NoneAnnotation == [none |-> TRUE, objs |-> <<>>]
LocatedObjects(list) == [none |-> FALSE, objs |-> list]

Frac(a, b) == [num |-> a, den |-> b]
NoneFrac == [none |-> TRUE, val |-> Frac(0, 1)]
SomeFrac(v) == [none |-> FALSE, val |-> v]
DefaultMinIou == Frac(7, 10)
MinIouPool == {Frac(0, 1), Frac(1, 10), DefaultMinIou}
OutputFilePool == {NoneStr, SomeStr(""), SomeStr("./combined.report")}

\* ------------------------------------------------------------------ objects
\* identity of an object: <<f, k>> is object k of the f-th frame handed to the
\* filter, Own is an object only the accumulator refers to
Own == <<0, 0>>
NoMeta == [k \in {} |-> 0]

LocatedObject(x, y, width, height) ==
    [x |-> x, y |-> y, width |-> width, height |-> height,
     has_polygon |-> FALSE, poly |-> {}, meta |-> NoMeta, id |-> Own]

WithMeta(obj, key, value) == [obj EXCEPT !.meta = (key :> value) @@ @]

\* the objects of the frames: the rectangles (0,0)-(2,2), (1,1)-(3,3) and
\* (2,0)-(3,3), as inclusive pixel boxes x, y, width, height; their IoUs are
\* 1/7 (A, B), 0 (A, D) and 2/5 (B, D), and 1 for two copies of one rectangle
ObjA == LocatedObject(0, 0, 3, 3)
ObjB == WithMeta(LocatedObject(1, 1, 3, 3), LABEL, "car")
ObjD == WithMeta(LocatedObject(2, 0, 2, 4), STREAM_INDEX, 9)

\* the annotation sets a frame can carry
FramePool == { <<>>, <<ObjA>>, <<ObjB>>, <<ObjA, ObjA>>, <<ObjD, ObjB>> }

SeqsUpTo(S, n) == UNION {[1..k -> S] : k \in 0..n}

\* the annotation set of frame f: the pool objects, each with its own identity
FrameAnnotation(objs, f) ==
    LocatedObjects([k \in 1..Len(objs) |-> [objs[k] EXCEPT !.id = <<f, k>>]])

Item(objs, f) == [frame |-> f, annotation |-> FrameAnnotation(objs, f)]

Min(S) == CHOOSE v \in S : \A w \in S : v <= w
Max(S) == CHOOSE v \in S : \A w \in S : v >= w

\* F applied to the value of v
Let(v, F(_)) == CHOOSE r \in {F(w) : w \in {v}} : TRUE

RECURSIVE SortedSeq(_)
SortedSeq(S) == IF S = {} THEN <<>> ELSE <<Min(S)>> \o SortedSeq(S \ {Min(S)})


\* ----------------------------------------------------------------- geometry
Cells(x0, y0, x1, y1) == {<<i, j>> : i \in x0..(x1 - 1), j \in y0..(y1 - 1)}

\* idc.api.locatedobjects_to_shapely: the polygon of an object that has one,
\* else the rectangle (x, y)-(x + width - 1, y + height - 1) of its box
locatedobject_bbox_to_shapely(obj) ==
    Cells(obj.x, obj.y, obj.x + obj.width - 1, obj.y + obj.height - 1)

locatedobject_polygon_to_shapely(obj) ==
    IF obj.has_polygon THEN obj.poly ELSE locatedobject_bbox_to_shapely(obj)

locatedobjects_to_shapely(located_objects) ==
    [k \in 1..Len(located_objects.objs) |->
        locatedobject_polygon_to_shapely(located_objects.objs[k])]

\* idc.api.intersect_over_union: area of the intersection over area of the
\* union, 0 when the intersection has no area
intersect_over_union(poly1, poly2) ==
    IF Cardinality(poly2 \cap poly1) > 0
    THEN Frac(Cardinality(poly2 \cap poly1), Cardinality(poly2 \cup poly1))
    ELSE Frac(0, 1)

IouPositive(iou) == iou.num > 0
IouGeq(iou, bound) == iou.num * bound.den >= bound.num * iou.den

\* shapely geometries: a Polygon is one edge-connected set of cells, a
\* MultiPolygon lists its parts in the library's enumeration order
Polygon(cells) == [type |-> "Polygon", cells |-> cells, geoms |-> <<>>]
MultiPolygon(parts) == [type |-> "MultiPolygon", cells |-> {}, geoms |-> parts]

Adjacent(c, d) ==
    \/ c[1] = d[1] /\ (c[2] - d[2]) \in {-1, 1}
    \/ c[2] = d[2] /\ (c[1] - d[1]) \in {-1, 1}

RECURSIVE Grow(_, _)
Grow(part, region) ==
    LET nxt == part \cup {d \in region : \E c \in part : Adjacent(c, d)}
    IN  IF nxt = part THEN part ELSE Grow(nxt, region)

CellLess(c, d) == c[1] < d[1] \/ (c[1] = d[1] /\ c[2] < d[2])
FirstCell(region) == CHOOSE c \in region : \A d \in region : c = d \/ CellLess(c, d)
LastCell(region) == CHOOSE c \in region : \A d \in region : c = d \/ CellLess(d, c)

EnumOrders == {"asc", "desc"}

\* the connected parts of a region, in the enumeration order enum
RECURSIVE Parts(_, _)
Parts(region, enum) ==
    IF region = {} THEN <<>>
    ELSE LET c == IF enum = "asc" THEN FirstCell(region) ELSE LastCell(region)
             part == Grow({c}, region)
         IN  <<Polygon(part)>> \o Parts(region \ part, enum)

GeometryCollection(parts) ==
    [type |-> "GeometryCollection", cells |-> {}, geoms |-> parts]

\* the geometry of a region: nothing, one polygon or several
Geometry(region, enum) ==
    Let(Parts(region, enum), LAMBDA parts :
        IF Len(parts) = 0 THEN GeometryCollection(<<>>)
        ELSE IF Len(parts) = 1 THEN Polygon(region)
        ELSE MultiPolygon(parts))

\* the edges along which the two polygons touch without overlapping: a cell
\* of poly1 outside poly2 next to a cell of poly2 outside poly1
Contacts(poly1, poly2) ==
    {<<c, d>> \in (poly1 \ poly2) \X (poly2 \ poly1) : Adjacent(c, d)}

LineString == [type |-> "LineString", cells |-> {}, geoms |-> <<>>]

\* the order in which the library lists the members of a multi-part result:
\* polygons from the first or from the last cell on, lines after or before
\* the polygons
PolygonOrder(enum) == IF enum \in {"asc", "lines, asc"} THEN "asc" ELSE "desc"
LinesFirst(enum) == enum \in {"lines, asc", "lines, desc"}
MixedEnumOrders == {"asc", "desc", "lines, asc", "lines, desc"}

unary_union(poly1, poly2, enum) == Geometry(poly1 \cup poly2, PolygonOrder(enum))

\* shapely intersection: the overlap, and a LineString for every edge along
\* which the polygons only touch (then the result is a GeometryCollection)
intersection(poly1, poly2, enum) ==
    Let(Contacts(poly1, poly2), LAMBDA contacts :
        IF contacts = {} \/ poly1 \cap poly2 = {}
        THEN Geometry(poly1 \cap poly2, PolygonOrder(enum))
        ELSE Let(Parts(poly1 \cap poly2, PolygonOrder(enum)), LAMBDA parts :
             Let([k \in 1..Cardinality(contacts) |-> LineString], LAMBDA lines :
                 GeometryCollection(IF LinesFirst(enum) THEN lines \o parts
                                    ELSE parts \o lines))))


\* -------------------------------------------------------------------- state
VARIABLES
    min_iou,        \* self.min_iou
    combination,    \* self.combination
    output_file,    \* self.output_file
    stream_index,   \* self._stream_index
    annotation,     \* self._annotation
    phase,          \* "rejected", "constructed", "initialized", "failed",
                    \* "aborted" or "finalized"
    reports,        \* what save() has written: [file, report]
    log,            \* what logger() has been given: [level, msg]
    data,           \* the argument of the last _do_process call
    returned,       \* the value the last _do_process call returned
    step,           \* the last merge step: its inputs, matches and outcome
    seeded,         \* the annotation set that seeded the accumulator
    framesSeen,     \* number of records handed to _do_process so far
    edited,         \* TRUE once the holder of a forwarded record changed it
    raised,         \* the exception the last call raised, with the accumulator
                    \* state at the start of the frame that raised it
    args,           \* the arguments of the last __init__ or _apply_args call
    streamStart,    \* framesSeen at the last initialize()
    derived,        \* the last box derived from the bounds of a polygon
    calls,          \* the _do_process calls of the run, when they are recorded
    writer          \* the to-annotation-overlay-od writer: its fields scale_to,
                    \* _scale_to and _overlay, its life-cycle phase, its log,
                    \* the overlays it saved and the sizes of the images it drew

vars == <<min_iou, combination, output_file, stream_index, annotation, phase,
          reports, log, data, returned, step, seeded, framesSeen, edited,
          raised, args, streamStart, derived, calls, writer>>

\* what the filter's operations leave alone
outside == <<derived, calls, writer>>
NoDerived == [none |-> TRUE, bounds |-> <<>>, box |-> <<>>]

\* a size is <<width, height>>; an image is known by its size
NoneSize == [none |-> TRUE, val |-> <<0, 0>>]
SomeSize(size) == [none |-> FALSE, val |-> size]
NoneImage == [none |-> TRUE, size |-> <<0, 0>>]
Image(size) == [none |-> FALSE, size |-> size]

\* a string option of the writer is the sequence of its characters
NoneChars == [none |-> TRUE, val |-> <<>>]
SomeChars(s) == [none |-> FALSE, val |-> s]

\* no writer constructed
NoWriter ==
    [phase |-> "none", scale_to |-> NoneChars, _scale_to |-> NoneSize,
     _overlay |-> NoneImage, log |-> <<>>, saved |-> <<>>, images |-> <<>>]

NoError ==
    [none |-> TRUE, msg |-> "", annotation |-> NoneAnnotation,
     stream_index |-> NoneInt]
Exception(msg, annotation_before, stream_index_before) ==
    [none |-> FALSE, msg |-> msg, annotation |-> annotation_before,
     stream_index |-> stream_index_before]

\* ------------------------------------------------------------------ matcher
\* visit_pair without the iou > 0 test of line 137
visit_pair_without_positive_test(st, o, n, iou) ==
    IF IouGeq(iou, min_iou)
    THEN [result |-> Append(st.result, <<o, n, iou>>),
          match_new |-> st.match_new \ {n},
          match_old |-> st.match_old \ {o}]
    ELSE st

\* visit_pair in which a pair below min_iou takes its indices out of the
\* unmatched sets
visit_pair_with_veto(st, o, n, iou) ==
    IF IouPositive(iou)
    THEN [result |-> IF IouGeq(iou, min_iou)
                     THEN Append(st.result, <<o, n, iou>>) ELSE st.result,
          match_new |-> st.match_new \ {n},
          match_old |-> st.match_old \ {o}]
    ELSE st

\* lines 136-143: one pair of the double loop
visit_pair(st, o, n, iou) ==
    IF IouPositive(iou) /\ IouGeq(iou, min_iou)
    THEN [result |-> Append(st.result, <<o, n, iou>>),
          match_new |-> st.match_new \ {n},
          match_old |-> st.match_old \ {o}]
    ELSE st

\* lines 134-135: for n in new, for o in old; p counts the pairs visited
RECURSIVE find_matches_loop(_, _, _, _)
find_matches_loop(polygons_old, polygons_new, p, st) ==
    IF p >= Len(polygons_old) * Len(polygons_new) THEN st
    ELSE LET n == p \div Len(polygons_old)
             o == p % Len(polygons_old)
             iou == intersect_over_union(polygons_new[n + 1], polygons_old[o + 1])
         IN  find_matches_loop(polygons_old, polygons_new, p + 1,
                               visit_pair(st, o, n, iou))

\* lines 145-151: the indices left in a set, as CPython iterates a set of
\* small integers (ascending); unmatched_old_descending lists them the other
\* way round
unmatched_old_descending(match_old) ==
    LET s == SortedSeq(match_old)
    IN  [k \in 1..Len(s) |-> <<s[Len(s) + 1 - k], -1, Frac(0, 1)>>]

unmatched_old(match_old) ==
    LET s == SortedSeq(match_old)
    IN  [k \in 1..Len(s) |-> <<s[k], -1, Frac(0, 1)>>]

\* unmatched_new that reports an IoU of 1
unmatched_new_with_iou_one(match_new) ==
    LET s == SortedSeq(match_new)
    IN  [k \in 1..Len(s) |-> <<-1, s[k], Frac(1, 1)>>]

unmatched_new(match_new) ==
    LET s == SortedSeq(match_new)
    IN  [k \in 1..Len(s) |-> <<-1, s[k], Frac(0, 1)>>]

\* find_matches without the unmatched indices of lines 145-151
find_matches_matched_only(polygons_old, polygons_new) ==
    find_matches_loop(polygons_old, polygons_new, 0,
                      [result |-> <<>>,
                       match_new |-> 0..(Len(polygons_new) - 1),
                       match_old |-> 0..(Len(polygons_old) - 1)]).result

find_matches(polygons_old, polygons_new) ==
    LET st == find_matches_loop(polygons_old, polygons_new, 0,
                  [result |-> <<>>,
                   match_new |-> 0..(Len(polygons_new) - 1),
                   match_old |-> 0..(Len(polygons_old) - 1)])
    IN  st.result \o unmatched_old(st.match_old) \o unmatched_new(st.match_new)

\* ----------------------------------------------------------------- combiner
\* line 191: raise Exception("Unknown combination method: %s" % ...)
UnknownCombination == [type |-> "Exception", cells |-> {}, geoms |-> <<>>]

\* combine_polygons that takes the union in intersect mode too
combine_polygons_always_union(poly_new, poly_old, enum) ==
    IF combination \in COMBINATIONS THEN unary_union(poly_new, poly_old, enum)
    ELSE UnknownCombination

\* lines 186-191
combine_polygons(poly_new, poly_old, enum) ==
    IF combination = UNION_ THEN unary_union(poly_new, poly_old, enum)
    ELSE IF combination = INTERSECT THEN intersection(poly_new, poly_old, enum)
    ELSE UnknownCombination

\* first_polygon that takes the last Polygon among the parts
first_polygon_last(poly_comb) ==
    IF /\ poly_comb.type \in {"GeometryCollection", "MultiPolygon"}
       /\ \E k \in 1..Len(poly_comb.geoms) : poly_comb.geoms[k].type = "Polygon"
    THEN poly_comb.geoms[Max({k \in 1..Len(poly_comb.geoms) :
                                  poly_comb.geoms[k].type = "Polygon"})]
    ELSE poly_comb

\* lines 193-202: the first Polygon among the parts of a multi-part result
first_polygon(poly_comb) ==
    IF /\ poly_comb.type \in {"GeometryCollection", "MultiPolygon"}
       /\ \E k \in 1..Len(poly_comb.geoms) : poly_comb.geoms[k].type = "Polygon"
    THEN poly_comb.geoms[Min({k \in 1..Len(poly_comb.geoms) :
                                  poly_comb.geoms[k].type = "Polygon"})]
    ELSE poly_comb

\* new_located_object stamped before the counter was advanced
new_located_object_stale_index(poly_comb, index) ==
    [x |-> Min({c[1] : c \in poly_comb.cells}),
     y |-> Min({c[2] : c \in poly_comb.cells}),
     width |-> Max({c[1] : c \in poly_comb.cells}) - Min({c[1] : c \in poly_comb.cells}) + 2,
     height |-> Max({c[2] : c \in poly_comb.cells}) - Min({c[2] : c \in poly_comb.cells}) + 2,
     has_polygon |-> TRUE, poly |-> poly_comb.cells,
     meta |-> (STREAM_INDEX :> (index - 1)), id |-> Own]

\* new_located_object with width and height taken as maxx - minx, maxy - miny
new_located_object_exclusive_box(poly_comb, index) ==
    [x |-> Min({c[1] : c \in poly_comb.cells}),
     y |-> Min({c[2] : c \in poly_comb.cells}),
     width |-> Max({c[1] : c \in poly_comb.cells}) - Min({c[1] : c \in poly_comb.cells}) + 1,
     height |-> Max({c[2] : c \in poly_comb.cells}) - Min({c[2] : c \in poly_comb.cells}) + 1,
     has_polygon |-> TRUE, poly |-> poly_comb.cells,
     meta |-> (STREAM_INDEX :> index), id |-> Own]

\* shapely's bounds of a polygon of cells: minx, miny, maxx, maxy
polygon_bounds(cells) ==
    [minx |-> Frac(Min({c[1] : c \in cells}), 1),
     miny |-> Frac(Min({c[2] : c \in cells}), 1),
     maxx |-> Frac(Max({c[1] : c \in cells}) + 1, 1),
     maxy |-> Frac(Max({c[2] : c \in cells}) + 1, 1)]

\* Python's int() of a float: the fraction is cut off, towards zero
int(q) == IF q.num >= 0 THEN q.num \div q.den ELSE -((-q.num) \div q.den)

\* lines 205 and 210: the box made from the bounds of the combined polygon
located_object_of_bounds(bounds) ==
    LET minx == int(bounds.minx)
        miny == int(bounds.miny)
        maxx == int(bounds.maxx)
        maxy == int(bounds.maxy)
    IN  LocatedObject(minx, miny, maxx - minx + 1, maxy - miny + 1)

\* lines 206-213: the located object built from the combined polygon
new_located_object(poly_comb, index) ==
    [located_object_of_bounds(polygon_bounds(poly_comb.cells)) EXCEPT
        !.has_polygon = TRUE, !.poly = poly_comb.cells,
        !.meta = (STREAM_INDEX :> index)]

\* line 181
new_only(current_annotation, n) == current_annotation.objs[n + 1]

\* old_only that rebuilds the object from its box alone
old_only_box_only(old_annotation, o) ==
    LocatedObject(old_annotation.objs[o + 1].x, old_annotation.objs[o + 1].y,
                  old_annotation.objs[o + 1].width, old_annotation.objs[o + 1].height)

\* line 183
old_only(old_annotation, o) == old_annotation.objs[o + 1]

\* an entry of combined, or the pair that was skipped; geom is what the
\* combination of a matched pair returned (lines 186-189)
NoGeometry == [type |-> "None", cells |-> {}, geoms |-> <<>>]
Dropped(type) ==
    [kept |-> FALSE, obj |-> LocatedObject(0, 0, 0, 0), type |-> type,
     geom |-> NoGeometry]
Kept(obj) == [kept |-> TRUE, obj |-> obj, type |-> "LocatedObject", geom |-> NoGeometry]

\* combine_match that hands the old object's meta-data on to the merged object
combine_match_keeping_metadata(match, old_annotation, current_annotation, polygons_old, polygons_new, index, enum) ==
    IF match[1] = -1 THEN Kept(new_only(current_annotation, match[2]))
    ELSE IF match[2] = -1 THEN Kept(old_only(old_annotation, match[1]))
    ELSE Let(combine_polygons(polygons_new[match[2] + 1],
                              polygons_old[match[1] + 1], enum), LAMBDA geom :
         Let(first_polygon(geom), LAMBDA poly_comb :
             IF poly_comb.type = "Polygon"
             THEN [Kept([new_located_object(poly_comb, index) EXCEPT
                            !.meta = (STREAM_INDEX :> index)
                                     @@ old_annotation.objs[match[1] + 1].meta])
                   EXCEPT !.geom = geom]
             ELSE [Dropped(poly_comb.type) EXCEPT !.geom = geom]))

\* lines 179-217: what one correspondence adds to combined
combine_match(match, old_annotation, current_annotation, polygons_old, polygons_new, index, enum) ==
    IF match[1] = -1 THEN Kept(new_only(current_annotation, match[2]))
    ELSE IF match[2] = -1 THEN Kept(old_only(old_annotation, match[1]))
    ELSE Let(combine_polygons(polygons_new[match[2] + 1],
                              polygons_old[match[1] + 1], enum), LAMBDA geom :
         Let(first_polygon(geom), LAMBDA poly_comb :
             IF poly_comb.type = "Polygon"
             THEN [Kept(new_located_object(poly_comb, index)) EXCEPT !.geom = geom]
             ELSE [Dropped(poly_comb.type) EXCEPT !.geom = geom]))

Warning(type) ==
    [level |-> "warning",
     msg |-> "Unhandled geometry type returned from combination, skipping",
     arg |-> type]


\* -------------------------------------------------------------- _do_process
\* idc.api.make_list / flatten_list: a single record is [is_list = FALSE] with
\* one item; a list of one record is returned as that record
make_list(d) == d.items
flatten_list(l) == [is_list |-> Len(l) # 1, items |-> l]

get_absolute(item) == item.annotation

\* copy.deepcopy: equal values, objects of their own
deepcopy(located_objects) ==
    LocatedObjects([k \in 1..Len(located_objects.objs) |->
                       [located_objects.objs[k] EXCEPT !.id = Own]])

\* seed without the deep copy
seed_without_copy(item) == get_absolute(item)

\* lines 167-169
seed(item) == deepcopy(get_absolute(item))

\* forward that puts the record in front
forward_in_front(result, item) == <<item>> \o result

\* line 165
forward(result, item) == Append(result, item)

NoStep ==
    [valid |-> FALSE, index |-> 0, old |-> <<>>, new |-> <<>>,
     matches |-> <<>>, combined |-> <<>>]

\* lines 178-219: combined, and the accumulator and log it leaves; when a
\* matched pair raises (line 191) the counter has been advanced (line 171) and
\* nothing else has changed: every pair before it was combined without a
\* warning, and line 219 is not reached
combine(st, item, index, polygons_old, polygons_new, matches, enum) ==
    Let([i \in 1..Len(matches) |->
            combine_match(matches[i], st.annotation, get_absolute(item),
                          polygons_old, polygons_new, index, enum)],
        LAMBDA combined :
            IF \E i \in 1..Len(combined) : combined[i].type = "Exception"
            THEN [st EXCEPT
                     !.stream_index = index,
                     !.raised = Exception("Unknown combination method: %s",
                                          st.annotation, SomeInt(st.stream_index))]
            ELSE
            [st EXCEPT
                !.stream_index = index,
                !.annotation = LocatedObjects(
                    Let(SelectSeq(combined, LAMBDA c : c.kept),
                        LAMBDA kept : [k \in 1..Len(kept) |-> kept[k].obj])),
                !.log = @ \o Let(SelectSeq(combined, LAMBDA c : ~c.kept),
                                 LAMBDA skipped : [k \in 1..Len(skipped) |->
                                                      Warning(skipped[k].type)]),
                !.step = [valid |-> TRUE, index |-> index,
                          old |-> st.annotation.objs,
                          new |-> get_absolute(item).objs,
                          matches |-> matches, combined |-> combined]])

\* merge_step without the increment of line 171
merge_step_without_increment(st, item, enum) ==
    Let(locatedobjects_to_shapely(st.annotation), LAMBDA polygons_old :
    Let(locatedobjects_to_shapely(get_absolute(item)), LAMBDA polygons_new :
    Let(find_matches(polygons_old, polygons_new), LAMBDA matches :
        combine(st, item, st.stream_index, polygons_old, polygons_new,
                matches, enum))))

\* lines 171-219: the merge of one item into the accumulator
merge_step(st, item, enum) ==
    Let(locatedobjects_to_shapely(st.annotation), LAMBDA polygons_old :
    Let(locatedobjects_to_shapely(get_absolute(item)), LAMBDA polygons_new :
    Let(find_matches(polygons_old, polygons_new), LAMBDA matches :
        combine(st, item, st.stream_index + 1, polygons_old, polygons_new,
                matches, enum))))

\* lines 164-219: one pass of the loop body
do_process_item(st, item, enum) ==
    LET st1 == [st EXCEPT !.result = forward(@, item)]
    IN  IF ~st.raised.none THEN st
        ELSE IF st1.annotation.none
        THEN [st1 EXCEPT !.annotation = seed(item),
                         !.seeded = get_absolute(item)]
        ELSE merge_step(st1, item, enum)

RECURSIVE do_process_loop(_, _, _)
do_process_loop(st, items, enum) ==
    IF items = <<>> THEN st
    ELSE do_process_loop(do_process_item(st, Head(items), enum), Tail(items), enum)

\* lines 155-221
do_process(d, enum) ==
    do_process_loop([annotation |-> annotation, stream_index |-> stream_index.val,
                     result |-> <<>>, log |-> log, step |-> step,
                     seeded |-> seeded, raised |-> NoError],
                    make_list(d), enum)

\* wai.common LocatedObjects.to_report: one entry per object, numbered from 1,
\* with its box, its polygon if it has one, and its meta-data
to_report(located_objects) ==
    [k \in 1..Len(located_objects.objs) |->
        [x |-> located_objects.objs[k].x, y |-> located_objects.objs[k].y,
         width |-> located_objects.objs[k].width,
         height |-> located_objects.objs[k].height,
         has_polygon |-> located_objects.objs[k].has_polygon,
         poly |-> located_objects.objs[k].poly,
         meta |-> located_objects.objs[k].meta]]

\* finalize_reports without the test of line 228
finalize_reports_without_test(acc) ==
    Append(reports, [file |-> output_file.val, report |-> to_report(acc)])

\* lines 228-232: what finalize writes
finalize_reports(acc) ==
    IF ~acc.none
    THEN Append(reports, [file |-> output_file.val, report |-> to_report(acc)])
    ELSE reports

finalize_log(acc) ==
    IF ~acc.none
    THEN Append(log, [level |-> "info", msg |-> "Writing combined annotations to",
                      arg |-> output_file.val])
    ELSE log

\* ------------------------------------------------------------------ actions
NoData == [is_list |-> TRUE, items |-> <<>>]

Init ==
    /\ min_iou \in MinIouPool
    /\ combination \in COMBINATIONS
    /\ output_file \in OutputFilePool
    /\ stream_index = NoneInt
    /\ annotation = NoneAnnotation
    /\ phase = "constructed"
    /\ reports = <<>>
    /\ log = <<>>
    /\ data = NoData
    /\ returned = NoData
    /\ step = NoStep
    /\ seeded = NoneAnnotation
    /\ framesSeen = 0
    /\ edited = FALSE
    /\ raised = NoError
    /\ args = [call |-> "__init__", min_iou |-> SomeFrac(min_iou),
               combination |-> SomeStr(combination), output_file |-> output_file]
    /\ streamStart = 0
    /\ derived = NoDerived
    /\ calls = <<>>
    /\ writer = NoWriter

\* lines 111-118
Initialize ==
    /\ phase = "constructed"
    /\ stream_index' = SomeInt(0)
    /\ phase' = IF output_file.none \/ Len(output_file.val) = 0
                THEN "failed" ELSE "initialized"
    /\ raised' = IF output_file.none \/ Len(output_file.val) = 0
                 THEN Exception("No output file defined!", annotation, stream_index)
                 ELSE NoError
    /\ UNCHANGED <<min_iou, combination, output_file, annotation, reports, log,
                   data, returned, step, seeded, framesSeen, edited, args,
                   streamStart>>
    /\ UNCHANGED outside

Batches == SeqsUpTo(FramePool, MaxBatch)
MaxObjs == Max({Len(objs) : objs \in FramePool})

\* lines 155-221: _do_process(data), data a record or a list of records
ProcessEffect(is_list, frames, enum) ==
    /\ phase = "initialized"
    /\ is_list \/ Len(frames) = 1
    /\ framesSeen + Len(frames) <= MaxFrames
    /\ LET d == [is_list |-> is_list,
                 items |-> [i \in 1..Len(frames) |-> Item(frames[i], framesSeen + i)]]
       IN  \E st \in {do_process(d, enum)} :
           /\ data' = d
           /\ returned' = IF st.raised.none THEN flatten_list(st.result) ELSE returned
           /\ raised' = st.raised
           /\ phase' = IF st.raised.none THEN phase ELSE "aborted"
           /\ annotation' = st.annotation
           /\ stream_index' = SomeInt(st.stream_index)
           /\ log' = st.log
           /\ step' = st.step
           /\ seeded' = st.seeded
           /\ framesSeen' = framesSeen + Len(frames)
    /\ UNCHANGED <<min_iou, combination, output_file, reports, edited, args,
                   streamStart>>

Process(is_list, frames, enum) ==
    /\ ProcessEffect(is_list, frames, enum)
    /\ UNCHANGED outside

\* the holder of a forwarded record (line 221 hands the very objects back)
\* edits the meta-data of object k of frame f: every reference to that object
\* sees the edit
Mutate(f, k) ==
    /\ phase = "initialized"
    /\ f \in 1..framesSeen
    /\ edited' = TRUE
    /\ annotation' =
          [annotation EXCEPT !.objs =
              [i \in 1..Len(@) |->
                  IF @[i].id = <<f, k>>
                  THEN WithMeta(@[i], LABEL, "edited")
                  ELSE @[i]]]
    /\ UNCHANGED <<min_iou, combination, output_file, stream_index, phase, reports,
                   log, data, returned, step, seeded, framesSeen, raised, args,
                   streamStart>>
    /\ UNCHANGED outside

\* lines 223-232
Finalize ==
    /\ phase = "initialized"
    /\ phase' = "finalized"
    /\ reports' = finalize_reports(annotation)
    /\ log' = finalize_log(annotation)
    /\ UNCHANGED <<min_iou, combination, output_file, stream_index, annotation,
                   data, returned, step, seeded, framesSeen, edited, raised, args,
                   streamStart>>
    /\ UNCHANGED outside

Next ==
    \/ Initialize
    \/ \E is_list \in BOOLEAN, frames \in Batches, enum \in EnumOrders :
          Process(is_list, frames, enum)
    \/ \E f \in 1..MaxFrames, k \in 1..MaxObjs : Mutate(f, k)
    \/ Finalize

Spec == Init /\ [][Next]_vars

\* -------------------------------------------------------------------- reuse
\* lines 111-118, called again on a filter whose stream was finalized (its
\* output file passed the test of line 117 before); MaxStreams caps the
\* reports written
Reinitialize ==
    /\ phase = "finalized"
    /\ Len(reports) < MaxStreams
    /\ stream_index' = SomeInt(0)
    /\ phase' = "initialized"
    /\ raised' = NoError
    /\ streamStart' = framesSeen
    /\ UNCHANGED <<min_iou, combination, output_file, annotation, reports, log,
                   data, returned, step, seeded, framesSeen, edited, args>>
    /\ UNCHANGED outside

NextReuse ==
    \/ Reinitialize
    \/ Next

SpecReuse == Init /\ [][NextReuse]_vars

\* --------------------------------------------------------- polygon objects
\* frames whose objects carry polygons: a C-shaped polygon (a column with a
\* short upper and a long lower arm) in the box (0,0)-(3,3), and the box
\* (1,0)-(3,3), which cuts both arms off the column and touches the column
\* between them; their IoU is 1/3
PolygonObject(x, y, width, height, cells) ==
    [LocatedObject(x, y, width, height) EXCEPT !.has_polygon = TRUE, !.poly = cells]
ObjC ==
    WithMeta(PolygonObject(0, 0, 4, 4,
                 {<<0, 0>>, <<0, 1>>, <<0, 2>>, <<1, 0>>, <<1, 2>>, <<2, 2>>}),
             LABEL, "cup")
ObjE == WithMeta(LocatedObject(1, 0, 3, 4), "score", 1)
PolygonFramePool == { <<ObjC>>, <<ObjE>>, <<ObjE, ObjC>> }
PolygonBatches == SeqsUpTo(PolygonFramePool, MaxBatch)

NextPolygons ==
    \/ Initialize
    \/ \E is_list \in BOOLEAN, frames \in PolygonBatches, enum \in MixedEnumOrders :
          Process(is_list, frames, enum)
    \/ \E f \in 1..MaxFrames, k \in 1..MaxObjs : Mutate(f, k)
    \/ Finalize

SpecPolygons == Init /\ [][NextPolygons]_vars

\* ------------------------------------------------------------------ bounds
\* the bounds a combined polygon can have: its vertices are floats, also
\* when the frames' are integers (two edges that cross), and may be negative
Coordinates ==
    {Frac(-3, 2), Frac(-1, 1), Frac(0, 1), Frac(1, 2), Frac(2, 1), Frac(5, 2)}
FracLess(a, b) == a.num * b.den < b.num * a.den
BoundsPool ==
    {b \in [minx : Coordinates, miny : Coordinates, maxx : Coordinates,
            maxy : Coordinates] : FracLess(b.minx, b.maxx) /\ FracLess(b.miny, b.maxy)}

\* lines 205 and 210 applied to the bounds of a polygon
Derive(b) ==
    /\ derived' = [none |-> FALSE, bounds |-> b, box |-> located_object_of_bounds(b)]
    /\ UNCHANGED <<min_iou, combination, output_file, stream_index, annotation,
                   phase, reports, log, data, returned, step, seeded, framesSeen,
                   edited, raised, args, streamStart, calls, writer>>

NextBounds == \E b \in BoundsPool : Derive(b)

SpecBounds == Init /\ [][NextBounds]_vars

\* -------------------------------------------------------------------- runs
\* a run whose _do_process calls are recorded, with the order in which the
\* library listed the members of multi-part results; every call has one
\* record, alone or in a list
ProcessRecorded(is_list, frames, enum) ==
    /\ ProcessEffect(is_list, frames, enum)
    /\ calls' = Append(calls, [data |-> data', enum |-> enum])
    /\ UNCHANGED <<derived, writer>>

RunFramePool == { <<>>, <<ObjA>>, <<ObjB>>, <<ObjD, ObjB>> }
RunBatches == [1..1 -> RunFramePool]

\* the two runs are on one build of the library, which lists in one order
RunOrders == {"asc"}

NextRuns ==
    \/ Initialize
    \/ \E is_list \in BOOLEAN, frames \in RunBatches, enum \in RunOrders :
          ProcessRecorded(is_list, frames, enum)
    \/ \E f \in 1..MaxFrames, k \in 1..MaxObjs : Mutate(f, k)
    \/ Finalize

SpecRuns == Init /\ [][NextRuns]_vars

\* a second run of the filter, with the configuration of the first, over the
\* recorded calls: lines 47-48, 116 and then lines 155-221 for every call
Fresh ==
    [annotation |-> NoneAnnotation, stream_index |-> 0, result |-> <<>>,
     log |-> <<>>, step |-> NoStep, seeded |-> NoneAnnotation, raised |-> NoError]

RECURSIVE replay(_, _)
replay(st, cs) ==
    IF cs = <<>> THEN st
    ELSE replay(do_process_loop([st EXCEPT !.result = <<>>],
                                make_list(Head(cs).data), Head(cs).enum),
                Tail(cs))

\* ------------------------------------------------------------------ writer
\* the to-annotation-overlay-od writer
\* (src/src/idc/imgvis/writer/_annotation_overlay.py); color and
\* background_color are left at their defaults, which lines 144-145 parse,
\* and what is drawn on the overlay (lines 156-180) is not modelled
Digits == <<"0", "1", "2", "3", "4", "5", "6", "7", "8", "9">>

\* str.split(sep): the pieces of s between the separators
RECURSIVE split(_, _)
split(s, sep) ==
    IF \A i \in 1..Len(s) : s[i] # sep THEN <<s>>
    ELSE LET i == Min({j \in 1..Len(s) : s[j] = sep})
         IN  <<SubSeq(s, 1, i - 1)>> \o split(SubSeq(s, i + 1, Len(s)), sep)

\* int(x) of a string: the number its decimal digits write; a string that is
\* empty or has another character raises ValueError
is_decimal(x) ==
    Len(x) > 0 /\ \A i \in 1..Len(x) : \E d \in 1..Len(Digits) : Digits[d] = x[i]

RECURSIVE int_of_string(_)
int_of_string(x) ==
    IF x = <<>> THEN 0
    ELSE 10 * int_of_string(SubSeq(x, 1, Len(x) - 1))
         + (CHOOSE d \in 0..9 : Digits[d + 1] = x[Len(x)])

\* new_size that is the size of the image
new_size_of_image(img_size, overlay_size) == img_size

\* line 151
new_size(img_size, overlay_size) ==
    <<Max({img_size[1], overlay_size[1]}), Max({img_size[2], overlay_size[2]})>>

ScaleToError(scale_to) ==
    [level |-> "error",
     msg |-> "'--scale_to' option requires format 'width,height' but received: %s",
     arg |-> scale_to]

\* lines 135-146: the first image creates the overlay
create_overlay(w, img_size) ==
    IF Len(w.scale_to.val) > 0
    THEN Let(split(w.scale_to.val, ","), LAMBDA tokens :
         IF \E t \in 1..Len(tokens) : ~is_decimal(tokens[t])
         THEN [w EXCEPT !._scale_to = NoneSize, !.phase = "aborted"]
         ELSE IF Len(tokens) # 2
         THEN [w EXCEPT !._scale_to = NoneSize,
                        !.log = Append(@, ScaleToError(w.scale_to.val)),
                        !._overlay = Image(img_size)]
         ELSE Let(<<int_of_string(tokens[1]), int_of_string(tokens[2])>>, LAMBDA size :
              [w EXCEPT !._scale_to = SomeSize(size), !._overlay = Image(size)]))
    ELSE [w EXCEPT !._scale_to = NoneSize, !._overlay = Image(img_size)]

\* lines 147-154: a later image makes the overlay larger when no size is set
enlarge_overlay(w, img_size) ==
    IF /\ w._scale_to.none
       /\ (img_size[1] > w._overlay.size[1] \/ img_size[2] > w._overlay.size[2])
    THEN [w EXCEPT !._overlay = Image(new_size(img_size, w._overlay.size))]
    ELSE w

\* lines 133-180 for one record; an exception of line 138 ends the call
write_item(w, img_size) ==
    IF w.phase = "aborted" THEN w
    ELSE Let(IF w._overlay.none THEN create_overlay(w, img_size)
             ELSE enlarge_overlay(w, img_size), LAMBDA v :
         IF v.phase = "aborted" THEN v
         ELSE [v EXCEPT !.images = Append(@, img_size)])

RECURSIVE write_stream(_, _)
write_stream(w, imgs) ==
    IF imgs = <<>> THEN w
    ELSE write_stream(write_item(w, Head(imgs)), Tail(imgs))

NoOverlay == [level |-> "warning", msg |-> "No overlay generated!", arg |-> <<>>]

\* lines 117-124
output_overlay(w) ==
    IF ~w._overlay.none THEN [w EXCEPT !.saved = Append(@, w._overlay)]
    ELSE [w EXCEPT !.log = Append(@, NoOverlay)]

\* scale_to as the constructor gets it: left out, empty, "10,3", "2,2", "7",
\* "1,2,3" and "x,3"
ScaleToPool ==
    { NoneChars, SomeChars(<<>>),
      SomeChars(<<"1", "0", ",", "3">>), SomeChars(<<"2", ",", "2">>),
      SomeChars(<<"7">>), SomeChars(<<"1", ",", "2", ",", "3">>),
      SomeChars(<<"x", ",", "3">>) }

\* the sizes of the images of the records
SizePool == { <<2, 2>>, <<3, 1>>, <<1, 3>> }
ImageBatches == SeqsUpTo(SizePool, MaxBatch)

\* lines 13-43
WriterConstruct(scale_to) ==
    /\ writer.phase = "none"
    /\ writer' = [NoWriter EXCEPT !.phase = "constructed", !.scale_to = scale_to]
    /\ UNCHANGED <<min_iou, combination, output_file, stream_index, annotation,
                   phase, reports, log, data, returned, step, seeded, framesSeen,
                   edited, raised, args, streamStart, derived, calls>>

\* lines 101-115
WriterInitialize ==
    /\ writer.phase = "constructed"
    /\ writer' = [writer EXCEPT !.phase = "initialized",
                                !.scale_to = IF @.none THEN SomeChars(<<>>) ELSE @]
    /\ UNCHANGED <<min_iou, combination, output_file, stream_index, annotation,
                   phase, reports, log, data, returned, step, seeded, framesSeen,
                   edited, raised, args, streamStart, derived, calls>>

\* lines 126-180: write_stream(data), data the records with images of the
\* sizes imgs
WriteStream(imgs) ==
    /\ writer.phase = "initialized"
    /\ Len(writer.images) + Len(imgs) <= MaxFrames
    /\ writer' = write_stream(writer, imgs)
    /\ UNCHANGED <<min_iou, combination, output_file, stream_index, annotation,
                   phase, reports, log, data, returned, step, seeded, framesSeen,
                   edited, raised, args, streamStart, derived, calls>>

\* lines 182-187
WriterFinalize ==
    /\ writer.phase \in {"initialized", "aborted"}
    /\ writer' = [output_overlay(writer) EXCEPT !.phase = "finalized"]
    /\ UNCHANGED <<min_iou, combination, output_file, stream_index, annotation,
                   phase, reports, log, data, returned, step, seeded, framesSeen,
                   edited, raised, args, streamStart, derived, calls>>

NextWriter ==
    \/ \E scale_to \in ScaleToPool : WriterConstruct(scale_to)
    \/ WriterInitialize
    \/ \E imgs \in ImageBatches : WriteStream(imgs)
    \/ WriterFinalize

SpecWriter == Init /\ [][NextWriter]_vars

\* ------------------------------------------------------------ configuration
\* line 24: the defaults of the constructor's parameters
DefaultCombination == INTERSECT
DefaultOutputFile == NoneStr

\* constructor calls: a parameter left out is none
CtorArgsPool ==
    { [min_iou |-> NoneFrac, combination |-> NoneStr, output_file |-> DefaultOutputFile],
      [min_iou |-> NoneFrac, combination |-> NoneStr,
       output_file |-> SomeStr("./combined.report")],
      [min_iou |-> NoneFrac, combination |-> NoneStr, output_file |-> SomeStr("")],
      [min_iou |-> SomeFrac(Frac(0, 1)), combination |-> SomeStr(UNION_),
       output_file |-> SomeStr("./combined.report")],
      [min_iou |-> SomeFrac(Frac(1, 10)), combination |-> SomeStr("xor"),
       output_file |-> SomeStr("./combined.report")] }

\* namespaces handed to _apply_args: the parser's defaults (lines 94-96), an
\* empty output file, and one that did not go through the parser's choices
NamespacePool ==
    { [min_iou |-> SomeFrac(DefaultMinIou), combination |-> SomeStr(INTERSECT),
       output_file |-> SomeStr("./combined.report")],
      [min_iou |-> SomeFrac(Frac(1, 10)), combination |-> SomeStr(UNION_),
       output_file |-> SomeStr("")],
      [min_iou |-> SomeFrac(Frac(1, 10)), combination |-> SomeStr("xor"),
       output_file |-> SomeStr("./combined.report")] }

\* the combination test with every value accepted
valid_combination_any(c) == TRUE

\* line 43
valid_combination(c) == c \in COMBINATIONS

\* lines 24-48: the state the constructor leaves; a rejected call (line 44)
\* leaves no object, its combination is not set
InitConfig ==
    \E a \in CtorArgsPool :
        LET c == IF a.combination.none THEN DefaultCombination ELSE a.combination.val
        IN  /\ args = [call |-> "__init__", min_iou |-> a.min_iou,
                       combination |-> a.combination, output_file |-> a.output_file]
            /\ min_iou = IF a.min_iou.none THEN DefaultMinIou ELSE a.min_iou.val
            /\ combination = IF valid_combination(c) THEN c ELSE ""
            /\ output_file = a.output_file
            /\ phase = IF valid_combination(c) THEN "constructed" ELSE "rejected"
            /\ raised = IF valid_combination(c) THEN NoError
                        ELSE Exception("Unknown combination: %s", NoneAnnotation, NoneInt)
            /\ stream_index = NoneInt
            /\ annotation = NoneAnnotation
            /\ reports = <<>>
            /\ log = <<>>
            /\ data = NoData
            /\ returned = NoData
            /\ step = NoStep
            /\ seeded = NoneAnnotation
            /\ framesSeen = 0
            /\ edited = FALSE
            /\ streamStart = 0
            /\ derived = NoDerived
            /\ calls = <<>>
            /\ writer = NoWriter

\* lines 99-109
ApplyArgs(ns) ==
    /\ phase = "constructed"
    /\ min_iou' = ns.min_iou.val
    /\ combination' = ns.combination.val
    /\ output_file' = ns.output_file
    /\ args' = [call |-> "_apply_args", min_iou |-> ns.min_iou,
                combination |-> ns.combination, output_file |-> ns.output_file]
    /\ UNCHANGED <<stream_index, annotation, phase, reports, log, data, returned,
                   step, seeded, framesSeen, edited, raised, streamStart>>
    /\ UNCHANGED outside

NextConfig ==
    \/ \E ns \in NamespacePool : ApplyArgs(ns)
    \/ Next

SpecConfig == InitConfig /\ [][NextConfig]_vars


\* ------------------------------------------------------------------- claims
Matches == step.matches
OldCount == Len(step.old)
NewCount == Len(step.new)
Matched(i) == Matches[i][1] # -1 /\ Matches[i][2] # -1
WithOld(o) == {i \in 1..Len(Matches) : Matches[i][1] = o}
WithNew(n) == {i \in 1..Len(Matches) : Matches[i][2] = n}
MatchedPairs == {i \in 1..Len(Matches) : Matched(i)}

\* C1: the list _find_matches returns holds every old index and every new
\* index in exactly one correspondence, so it has m + n - (matched pairs)
\* entries
C1_MatchingTotality ==
    step.valid =>
        /\ \A o \in 0..(OldCount - 1) : Cardinality(WithOld(o)) = 1
        /\ \A n \in 0..(NewCount - 1) : Cardinality(WithNew(n)) = 1
        /\ Len(Matches) = OldCount + NewCount - Cardinality(MatchedPairs)

\* C2: the matcher is one-to-one: no old index and no new index is in two
\* matched correspondences
C2_OneToOne ==
    step.valid =>
        \A i, j \in MatchedPairs :
            (Matches[i][1] = Matches[j][1] \/ Matches[i][2] = Matches[j][2]) => i = j

\* C3: every correspondence with both indices present pairs two polygons
\* whose IoU is at least min_iou and greater than 0
C3_ThresholdGate ==
    step.valid =>
        \A i \in MatchedPairs :
            /\ Matches[i][3] =
                  intersect_over_union(
                      locatedobject_polygon_to_shapely(step.new[Matches[i][2] + 1]),
                      locatedobject_polygon_to_shapely(step.old[Matches[i][1] + 1]))
            /\ IouGeq(Matches[i][3], min_iou)
            /\ IouPositive(Matches[i][3])

\* a step with min_iou = 0 in which one pair of polygons has IoU 0 and
\* another pair is matched
C3_Witness ==
    /\ step.valid
    /\ min_iou.num = 0
    /\ MatchedPairs # {}
    /\ \E o \in 1..OldCount, n \in 1..NewCount :
          ~IouPositive(intersect_over_union(
                locatedobject_polygon_to_shapely(step.new[n]),
                locatedobject_polygon_to_shapely(step.old[o])))


Combined == step.combined
Meta(i) == Combined[i].obj.meta

\* C4: every object of frame i that matched no accumulator object is in the
\* accumulator with stream_index = i in its meta-data
C4_NewOnlyTagged ==
    step.valid =>
        \A i \in 1..Len(Matches) :
            Matches[i][1] = -1 =>
                /\ Combined[i].kept
                /\ STREAM_INDEX \in DOMAIN Meta(i)
                /\ Meta(i)[STREAM_INDEX] = step.index

\* C5: the object added for a matched pair whose combination is a polygon is
\* a new object with stream_index = the counter of the current step, whatever
\* stream_index its parents carried
C5_MergedStamped ==
    step.valid =>
        /\ step.index = stream_index.val
        /\ \A i \in MatchedPairs :
              Combined[i].kept =>
                  /\ Combined[i].obj.id = Own
                  /\ Combined[i].obj.has_polygon
                  /\ STREAM_INDEX \in DOMAIN Meta(i)
                  /\ Meta(i)[STREAM_INDEX] = stream_index.val

\* a matched pair whose old and new object both carried another stream_index
C5_Witness ==
    /\ step.valid
    /\ \E i \in MatchedPairs :
          /\ Combined[i].kept
          /\ STREAM_INDEX \in DOMAIN step.old[Matches[i][1] + 1].meta
          /\ STREAM_INDEX \in DOMAIN step.new[Matches[i][2] + 1].meta
          /\ step.old[Matches[i][1] + 1].meta[STREAM_INDEX] # step.index
          /\ step.new[Matches[i][2] + 1].meta[STREAM_INDEX] # step.index

\* C6: an accumulator object that matches no object of the frame goes into
\* the new accumulator as it is: the same object, with its polygon, box and
\* meta-data, stream_index included
C6_OldOnlyUnchanged ==
    step.valid =>
        \A i \in 1..Len(Matches) :
            (Matches[i][1] # -1 /\ Matches[i][2] = -1) =>
                /\ Combined[i].kept
                /\ Combined[i].obj = step.old[Matches[i][1] + 1]

\* a step that passes through one old object with a stream_index and one
\* without
C6_Witness ==
    /\ step.valid
    /\ \E i, j \in 1..Len(Matches) :
          /\ Matches[i][1] # -1 /\ Matches[i][2] = -1
          /\ Matches[j][1] # -1 /\ Matches[j][2] = -1
          /\ STREAM_INDEX \in DOMAIN Meta(i)
          /\ STREAM_INDEX \notin DOMAIN Meta(j)

\* C7: after the first frame the accumulator is a deep copy of the frame's
\* annotation set (equal values, no shared object), no matching has run and
\* the counter is 0; edits of the frame's objects do not reach it
C7_Seeding ==
    framesSeen = 1 =>
        /\ ~annotation.none
        /\ ~seeded.none
        /\ Len(annotation.objs) = Len(seeded.objs)
        /\ \A k \in 1..Len(annotation.objs) :
              /\ annotation.objs[k].id = Own
              /\ seeded.objs[k].id = <<1, k>>
              /\ [annotation.objs[k] EXCEPT !.id = <<1, k>>] = seeded.objs[k]
        /\ ~step.valid
        /\ stream_index = SomeInt(0)

\* the first frame, with two objects, has been processed and then edited
C7_Witness ==
    /\ framesSeen = 1
    /\ edited
    /\ Len(seeded.objs) = 2
    /\ annotation = deepcopy(seeded)

\* C8: _do_process returns the records it was given: as many, in the same
\* order, with the annotations they came with
C8_PassThrough == make_list(returned) = make_list(data)

\* a list of two different records, the second merged into the accumulator
C8_Witness ==
    /\ data.is_list
    /\ Len(data.items) = 2
    /\ data.items[1].annotation.objs # data.items[2].annotation.objs
    /\ step.valid
    /\ returned = data

\* C9: nothing is written before finalize; finalize writes one report, the
\* final accumulator, if a frame was seen, and nothing otherwise
C9_FlushAtEnd ==
    /\ phase # "finalized" => reports = <<>>
    /\ phase = "finalized" =>
          reports = IF framesSeen > 0
                    THEN <<[file |-> output_file.val, report |-> to_report(annotation)]>>
                    ELSE <<>>

\* finalize after three frames, the accumulator holding a merged object
C9_Witness ==
    /\ phase = "finalized"
    /\ framesSeen = MaxFrames
    /\ Len(reports) = 1
    /\ \E k \in 1..Len(reports[1].report) : reports[1].report[k].has_polygon

\* C10: finalize with no frame seen logs a notice that no output was produced
C10_NoOutputNotice ==
    (phase = "finalized" /\ framesSeen = 0) => log # <<>>

\* C11: when a frame raises during matching or combining, the accumulator
\* and the counter are what they were before that frame
C11_AtomicMergeStep ==
    phase = "aborted" =>
        /\ annotation = raised.annotation
        /\ stream_index = raised.stream_index

OldOnly(i) == Matches[i][1] # -1 /\ Matches[i][2] = -1
NewOnly(i) == Matches[i][1] = -1
Rank(i) == IF Matched(i) THEN 0 ELSE IF OldOnly(i) THEN 1 ELSE 2
KeptObjs == SelectSeq(Combined, LAMBDA c : c.kept)
SameButMeta(a, b) == [a EXCEPT !.meta = NoMeta] = [b EXCEPT !.meta = NoMeta]

\* C15: the accumulator a merge step leaves lists the results of the matched
\* pairs first, then the old-only objects by ascending old index, then the
\* new-only objects by ascending new index
C15_AccumulatorOrder ==
    step.valid =>
        /\ \A i, j \in 1..Len(Matches) :
              i < j =>
                  /\ Rank(i) <= Rank(j)
                  /\ (OldOnly(i) /\ OldOnly(j)) => Matches[i][1] < Matches[j][1]
                  /\ (NewOnly(i) /\ NewOnly(j)) => Matches[i][2] < Matches[j][2]
        /\ Len(annotation.objs) = Len(KeptObjs)
        /\ \A k \in 1..Len(KeptObjs) : SameButMeta(annotation.objs[k], KeptObjs[k].obj)

\* a step with a matched pair, two old-only objects and a new-only object
C15_Witness ==
    /\ step.valid
    /\ MatchedPairs # {}
    /\ Cardinality({i \in 1..Len(Matches) : OldOnly(i)}) >= 2
    /\ \E i \in 1..Len(Matches) : NewOnly(i)

\* C16: after a merge step no object of the accumulator is an object of a
\* frame that was handed to the filter
C16_NoAliasing ==
    step.valid => \A k \in 1..Len(annotation.objs) : annotation.objs[k].id = Own

\* C17: a stream begins with no accumulator, also on a filter that has
\* finalized a stream before, and its first frame seeds the accumulator with
\* a copy of that frame and counter 0
C17_StreamIsolation ==
    phase = "initialized" =>
        /\ framesSeen = streamStart => annotation.none
        /\ (framesSeen = streamStart + 1 /\ Len(data.items) = 1) =>
              /\ stream_index = SomeInt(0)
              /\ annotation = deepcopy(get_absolute(data.items[1]))

\* C18: in one stream the counter is 0 after the first frame and k - 1
\* after k frames; every frame after the first advances it by one and
\* replaces the accumulator by the outcome of one merge of the accumulator
\* with that frame, and the accumulator stays set
C18_CounterPerFrame ==
    /\ [](phase \in {"initialized", "finalized"} =>
            /\ stream_index = SomeInt(IF framesSeen = 0 THEN 0 ELSE framesSeen - 1)
            /\ annotation.none <=> framesSeen = 0
            /\ step.valid <=> framesSeen >= 2
            /\ step.valid => step.index = framesSeen - 1)
    /\ [][(framesSeen >= 1 /\ framesSeen' = framesSeen + 1) =>
            /\ stream_index'.val = stream_index.val + 1
            /\ step'.valid
            /\ step'.old = annotation.objs
            /\ step'.new = get_absolute(data'.items[1]).objs
            /\ annotation'.objs =
                  [k \in 1..Len(KeptObjs') |-> KeptObjs'[k].obj]]_vars

\* three frames have been processed one by one
C18_Witness ==
    /\ phase = "initialized"
    /\ framesSeen = MaxFrames
    /\ stream_index = SomeInt(MaxFrames - 1)
    /\ ~data.is_list
    /\ step.valid

Box(obj) == <<obj.x, obj.y, obj.width, obj.height>>

\* C19: merging a frame that holds one rectangle into an accumulator that
\* holds the same rectangle gives one matched pair with IoU 1 and one object,
\* stamped with the step's counter (1 for the second frame), whose box is
\* that rectangle, in either combination mode
C19_IdenticalMerge ==
    (/\ step.valid
     /\ OldCount = 1 /\ NewCount = 1
     /\ ~step.old[1].has_polygon /\ ~step.new[1].has_polygon
     /\ Box(step.old[1]) = Box(step.new[1])) =>
        /\ Len(Matches) = 1
        /\ Matches[1][1] = 0 /\ Matches[1][2] = 0
        /\ Matches[1][3].num = Matches[1][3].den
        /\ Combined[1].kept
        /\ Box(Combined[1].obj) = Box(step.new[1])
        /\ STREAM_INDEX \in DOMAIN Meta(1)
        /\ Meta(1)[STREAM_INDEX] = step.index
        /\ framesSeen = 2 => Meta(1)[STREAM_INDEX] = 1
        /\ Len(annotation.objs) = 1
        /\ Box(annotation.objs[1]) = Box(step.new[1])

\* the second of two frames with the box (0,0)-(2,2) has been merged in
\* union mode with min_iou 0.7
C19_Witness ==
    /\ step.valid
    /\ framesSeen = 2
    /\ combination = UNION_
    /\ min_iou = DefaultMinIou
    /\ OldCount = 1 /\ NewCount = 1
    /\ Box(step.old[1]) = Box(ObjA) /\ Box(step.new[1]) = Box(ObjA)
    /\ Len(annotation.objs) = 1

IsBox(obj, x, y, width, height) == ~obj.has_polygon /\ Box(obj) = <<x, y, width, height>>

\* C20: in intersect mode the object added for a matched pair of rectangles
\* has their overlap rectangle as its polygon; with min_iou = 0.1 the
\* rectangles (0,0)-(2,2) and (1,1)-(3,3) are matched with IoU 1/7 (= 25/175)
\* and merged into the square (1,1)-(2,2)
C20_IntersectOverlap ==
    (step.valid /\ combination = INTERSECT) =>
        /\ \A i \in MatchedPairs :
              LET old == step.old[Matches[i][1] + 1]
                  new == step.new[Matches[i][2] + 1]
              IN  (~old.has_polygon /\ ~new.has_polygon) =>
                      /\ Combined[i].kept
                      /\ Combined[i].obj.has_polygon
                      /\ Combined[i].obj.poly =
                            Cells(Max({old.x, new.x}), Max({old.y, new.y}),
                                  Min({old.x + old.width, new.x + new.width}) - 1,
                                  Min({old.y + old.height, new.y + new.height}) - 1)
        /\ min_iou = Frac(1, 10) =>
              \A o \in 1..OldCount, n \in 1..NewCount :
                  (IsBox(step.old[o], 0, 0, 3, 3) /\ IsBox(step.new[n], 1, 1, 3, 3)) =>
                      \E i \in MatchedPairs :
                          /\ Matches[i][1] = o - 1 /\ Matches[i][2] = n - 1
                          /\ Matches[i][3].num * 175 = Matches[i][3].den * 25
                          /\ Combined[i].obj.poly = Cells(1, 1, 2, 2)

\* the rectangle (1,1)-(3,3) has been merged into the rectangle (0,0)-(2,2)
\* in intersect mode with min_iou 0.1
C20_Witness ==
    /\ step.valid
    /\ combination = INTERSECT
    /\ min_iou = Frac(1, 10)
    /\ OldCount = 1 /\ NewCount = 1
    /\ IsBox(step.old[1], 0, 0, 3, 3) /\ IsBox(step.new[1], 1, 1, 3, 3)
    /\ Len(annotation.objs) = 1
    /\ annotation.objs[1].poly = Cells(1, 1, 2, 2)


\* C21: an old index in no matched pair is in exactly one correspondence,
\* (o, -1, 0.0), a new index in no matched pair in exactly one, (-1, n, 0.0);
\* a correspondence with an index absent has IoU 0.0, none has both absent,
\* and every IoU is in [0, 1]
C21_UnmatchedCorrespondences ==
    step.valid =>
        /\ \A i \in 1..Len(Matches) :
              /\ ~(Matches[i][1] = -1 /\ Matches[i][2] = -1)
              /\ ~Matched(i) => Matches[i][3] = Frac(0, 1)
              /\ Matches[i][3].den > 0
              /\ 0 <= Matches[i][3].num /\ Matches[i][3].num <= Matches[i][3].den
        /\ \A o \in 0..(OldCount - 1) :
              IF \E i \in MatchedPairs : Matches[i][1] = o
              THEN \A i \in WithOld(o) : Matched(i)
              ELSE /\ Cardinality(WithOld(o)) = 1
                   /\ \A i \in WithOld(o) : Matches[i] = <<o, -1, Frac(0, 1)>>
        /\ \A n \in 0..(NewCount - 1) :
              IF \E i \in MatchedPairs : Matches[i][2] = n
              THEN \A i \in WithNew(n) : Matched(i)
              ELSE /\ Cardinality(WithNew(n)) = 1
                   /\ \A i \in WithNew(n) : Matches[i] = <<-1, n, Frac(0, 1)>>

\* a step with a matched pair, an unmatched old and an unmatched new index
C21_Witness ==
    /\ step.valid
    /\ MatchedPairs # {}
    /\ \E i \in 1..Len(Matches) : Matches[i][1] # -1 /\ Matches[i][2] = -1
    /\ \E i \in 1..Len(Matches) : Matches[i][1] = -1 /\ Matches[i][2] # -1


\* C22: _find_matches returns for every pair of lists, with at most one
\* entry per pair and per index: for an empty old list the new indices as
\* unmatched, for an empty new list the old indices as unmatched, for two
\* empty lists nothing
C22_MatcherDegenerates ==
    step.valid =>
        /\ Len(Matches) <= OldCount * NewCount + OldCount + NewCount
        /\ OldCount = 0 =>
              Matches = [k \in 1..NewCount |-> <<-1, k - 1, Frac(0, 1)>>]
        /\ NewCount = 0 =>
              Matches = [k \in 1..OldCount |-> <<k - 1, -1, Frac(0, 1)>>]
        /\ (OldCount = 0 /\ NewCount = 0) => Matches = <<>>

\* a frame with two objects has been matched against an empty accumulator
C22_Witness ==
    /\ step.valid
    /\ OldCount = 0
    /\ NewCount = 2
    /\ Len(Matches) = 2


StepIou(o, n) ==
    intersect_over_union(locatedobject_polygon_to_shapely(step.new[n + 1]),
                         locatedobject_polygon_to_shapely(step.old[o + 1]))
BelowThreshold(o, n) == IouPositive(StepIou(o, n)) /\ ~IouGeq(StepIou(o, n), min_iou)

\* C23: a pair with 0 < IoU < min_iou is no correspondence, and it takes
\* neither index out of the matching: each of its indices is still matched
\* with every partner that reaches min_iou, and reported as unmatched when
\* it has none
C23_BelowThresholdNoEffect ==
    step.valid =>
        \A o \in 0..(OldCount - 1), n \in 0..(NewCount - 1) :
            BelowThreshold(o, n) =>
                /\ ~\E i \in 1..Len(Matches) : Matches[i][1] = o /\ Matches[i][2] = n
                /\ \A m \in 0..(NewCount - 1) :
                      (IouPositive(StepIou(o, m)) /\ IouGeq(StepIou(o, m), min_iou)) =>
                          \E i \in MatchedPairs : Matches[i] = <<o, m, StepIou(o, m)>>
                /\ \A p \in 0..(OldCount - 1) :
                      (IouPositive(StepIou(p, n)) /\ IouGeq(StepIou(p, n), min_iou)) =>
                          \E i \in MatchedPairs : Matches[i] = <<p, n, StepIou(p, n)>>
                /\ (\A m \in 0..(NewCount - 1) : ~(IouPositive(StepIou(o, m)) /\ IouGeq(StepIou(o, m), min_iou))) =>
                          \E i \in 1..Len(Matches) : Matches[i] = <<o, -1, Frac(0, 1)>>
                /\ (\A p \in 0..(OldCount - 1) : ~(IouPositive(StepIou(p, n)) /\ IouGeq(StepIou(p, n), min_iou))) =>
                          \E i \in 1..Len(Matches) : Matches[i] = <<-1, n, Frac(0, 1)>>

\* a pair below min_iou whose new object is matched with another old
\* object and whose old object is reported as unmatched
C23_Witness ==
    /\ step.valid
    /\ \E o \in 0..(OldCount - 1), n \in 0..(NewCount - 1) :
          /\ BelowThreshold(o, n)
          /\ \E i \in MatchedPairs : Matches[i][2] = n
          /\ \E i \in 1..Len(Matches) : Matches[i] = <<o, -1, Frac(0, 1)>>


MultiPart(geom) ==
    /\ geom.type \in {"MultiPolygon", "GeometryCollection"}
    /\ \E k \in 1..Len(geom.geoms) : geom.geoms[k].type = "Polygon"
FirstPolygonMember(geom) ==
    CHOOSE k \in 1..Len(geom.geoms) :
        /\ geom.geoms[k].type = "Polygon"
        /\ \A j \in 1..(k - 1) : geom.geoms[j].type # "Polygon"

\* C24: when the combination of a matched pair is a MultiPolygon or a
\* GeometryCollection with a polygon among its members, the merged object
\* has the polygon of the first polygon member in the order the library
\* lists them, whatever comes before or after it
C24_FirstPolygonMember ==
    step.valid =>
        \A i \in MatchedPairs :
            MultiPart(Combined[i].geom) =>
                /\ Combined[i].kept
                /\ Combined[i].obj.has_polygon
                /\ Combined[i].obj.poly =
                      Combined[i].geom.geoms[FirstPolygonMember(Combined[i].geom)].cells

\* a result whose first member is a line, whose second member is the polygon
\* that was taken and whose third member is a larger polygon
C24_Witness ==
    /\ step.valid
    /\ \E i \in MatchedPairs :
          /\ Combined[i].geom.type = "GeometryCollection"
          /\ Len(Combined[i].geom.geoms) = 3
          /\ Combined[i].geom.geoms[1].type = "LineString"
          /\ Combined[i].obj.poly = Combined[i].geom.geoms[2].cells
          /\ Combined[i].geom.geoms[3].type = "Polygon"
          /\ Cardinality(Combined[i].geom.geoms[3].cells) >
                Cardinality(Combined[i].geom.geoms[2].cells)


FracLeq(a, b) == a.num * b.den <= b.num * a.den

\* C25: the box made for a merged polygon contains the polygon's bounds:
\* its first column and row are at or before the least x and y, its last
\* column and row (x + width - 1, y + height - 1) at or after the greatest
C25_BoxContainsPolygon ==
    ~derived.none =>
        /\ FracLeq(Frac(derived.box.x, 1), derived.bounds.minx)
        /\ FracLeq(Frac(derived.box.y, 1), derived.bounds.miny)
        /\ FracLeq(derived.bounds.maxx, Frac(derived.box.x + derived.box.width - 1, 1))
        /\ FracLeq(derived.bounds.maxy, Frac(derived.box.y + derived.box.height - 1, 1))


C27_BoundedGrowth ==
    step.valid => Len(step.combined) <= OldCount + NewCount

\* C28: the meta-data of the object added for a matched pair has the key
\* stream_index and no other: nothing of the meta-data of the old or the new
\* object of the pair is in it
C28_MergedMetadata ==
    step.valid =>
        \A i \in MatchedPairs :
            Combined[i].kept => DOMAIN Meta(i) = {STREAM_INDEX}

\* a merged pair whose old and new object both carry a label
C28_Witness ==
    /\ step.valid
    /\ \E i \in MatchedPairs :
          /\ Combined[i].kept
          /\ LABEL \in DOMAIN step.old[Matches[i][1] + 1].meta
          /\ LABEL \in DOMAIN step.new[Matches[i][2] + 1].meta
          /\ LABEL \notin DOMAIN Meta(i)
          /\ \E k \in 1..Len(annotation.objs) : annotation.objs[k] = Combined[i].obj

\* no object of a frame handed to _do_process so far has a stream_index
UntaggedFrames ==
    \A c \in 1..Len(calls) :
        \A k \in 1..Len(calls[c].data.items) :
            \A obj \in {calls[c].data.items[k].annotation.objs[j] :
                            j \in 1..Len(calls[c].data.items[k].annotation.objs)} :
                STREAM_INDEX \notin DOMAIN obj.meta

\* C29: when no frame of the stream carries a stream_index, each stream_index
\* on an accumulator object is between 1 and the counter; an object merged in
\* the last step carries that step's index, and an object the last step took
\* over from the old accumulator carries what it carried there
C29_StreamIndexRange ==
    (phase = "initialized" /\ UntaggedFrames) =>
        /\ \A k \in 1..Len(annotation.objs) :
              STREAM_INDEX \in DOMAIN annotation.objs[k].meta =>
                  annotation.objs[k].meta[STREAM_INDEX] \in 1..stream_index.val
        /\ step.valid =>
              \A i \in 1..Len(Matches) :
                  /\ (Matched(i) /\ Combined[i].kept) =>
                        /\ STREAM_INDEX \in DOMAIN Meta(i)
                        /\ Meta(i)[STREAM_INDEX] = step.index
                  /\ Matches[i][2] = -1 =>
                        /\ DOMAIN Meta(i) = DOMAIN step.old[Matches[i][1] + 1].meta
                        /\ STREAM_INDEX \in DOMAIN Meta(i) =>
                              Meta(i)[STREAM_INDEX] =
                                  step.old[Matches[i][1] + 1].meta[STREAM_INDEX]

\* an object merged at step 1 is in the accumulator after step 2, which did
\* not merge it, still with stream_index 1
C29_Witness ==
    /\ phase = "initialized"
    /\ UntaggedFrames
    /\ step.valid
    /\ step.index = 2
    /\ stream_index.val = 2
    /\ \E i \in 1..Len(Matches) :
          /\ Matches[i][2] = -1
          /\ STREAM_INDEX \in DOMAIN Meta(i)
          /\ Meta(i)[STREAM_INDEX] = 1
          /\ \E k \in 1..Len(annotation.objs) : annotation.objs[k] = Combined[i].obj

MaxWidth == Max({writer.images[i][1] : i \in 1..Len(writer.images)})
MaxHeight == Max({writer.images[i][2] : i \in 1..Len(writer.images)})
Unset == writer.scale_to.none \/ writer.scale_to.val = <<>>

\* C30: once an image is written the overlay exists; with scale_to unset its
\* size is the largest width and the largest height of the images written so
\* far (so it never shrinks), with scale_to "10,3" or "2,2" it is that size
\* whatever the images are; after finalize one overlay is saved if an image
\* was written, and otherwise nothing is saved and the one log entry is the
\* warning
C30_OverlayCanvas ==
    /\ writer.images # <<>> =>
          /\ ~writer._overlay.none
          /\ Unset => writer._overlay.size = <<MaxWidth, MaxHeight>>
          /\ writer.scale_to = SomeChars(<<"1", "0", ",", "3">>) =>
                writer._overlay.size = <<10, 3>>
          /\ writer.scale_to = SomeChars(<<"2", ",", "2">>) =>
                writer._overlay.size = <<2, 2>>
    /\ writer.phase = "finalized" =>
          /\ writer.images # <<>> =>
                /\ writer.saved = <<writer._overlay>>
                /\ \A i \in 1..Len(writer.log) : writer.log[i] # NoOverlay
          /\ writer.images = <<>> =>
                writer.saved = <<>> /\ writer.log = <<NoOverlay>>

\* with scale_to unset an image of 1 x 3 was written after one of 3 x 1 and
\* the overlay of 3 x 3 is saved
C30_Witness ==
    /\ writer.phase = "finalized"
    /\ Unset
    /\ writer.images = << <<3, 1>>, <<1, 3>> >>
    /\ writer.saved = <<Image(<<3, 3>>)>>

====
